---- MODULE Spec2Model ----
(***************************************************************************)
(* LedFB: pixel stores (PixelDataBuffer), bound pixel stores (CLedCDB),    *)
(* the output sinks they attach to (CLEDController) and 2D view access     *)
(* (LedFB::at).  Translated from src/ledfb/ledfb.hpp, src/ledfb/ledfb.cpp  *)
(* and src/ledfb/ledstripe.cpp.                                            *)
(***************************************************************************)
EXTENDS Integers, Sequences, FiniteSets, TLC

\* ------------------------------------------------------------------ bounds
NumCDB == 2          \* CLedCDB objects that can exist at once
NumPDB == 1          \* plain PixelDataBuffer<CRGB> objects
NumSinks == 2        \* CLEDController instances
MaxLen == 2          \* largest vector size requested
MaxColor == 1        \* colors are 0..MaxColor, 0 is CRGB() (black)
MaxAlive == 2        \* objects that exist at the same time
NumViews == 2        \* LedFB<CRGB> views
MaxDim == 4          \* largest width and height of a stripe
MaxTile == 2         \* largest width and height of a tile
MaxHolders == 2      \* shared_ptr handles to the overlay held by clients
MaxTileCnt == 2      \* largest number of tiles in a row and in a column
MaxPanel == 3        \* largest mx_width and mx_height of a HUB75 panel

NumStores == NumCDB + NumPDB
Stores == 1..NumStores
CDBs == 1..NumCDB                   \* dynamic type CLedCDB
PDBs == Stores \ CDBs               \* dynamic type PixelDataBuffer<CRGB>
Sinks == 1..NumSinks
Colors == 0..MaxColor
Sizes == 0..MaxLen
Views == 1..NumViews

\* ---------------------------------------------------------------- pointers
NullSink == 0        \* CLEDController *cled = nullptr
NullPtr == 0         \* data() of a vector that owns no allocation
BlackholePtr == -1   \* &blackhole, the static placeholder pixel
Black == 0           \* CRGB() / COLOR_TYPE()
\* Heap addresses. The program compares addresses only for equality, so states
\* are kept up to a renaming of the heap: after every call the addresses in use
\* are renamed 1, 2, ... in the order stores and sinks mention them (Canon).
Heap == 1..(NumStores + NumSinks + 1)

VARIABLES
    alive,      \* alive[s]: the object exists (constructed, not yet destroyed)
    data,       \* data[s]: fb.data(), the address of the vector's allocation
    fb,         \* fb[s]: the vector's elements
    cled,       \* cled[s]: the CLEDController a CLedCDB is bound to, or NullSink
    leds,       \* leds[k]: what sink k was last given by setLeds: [ptr, len]
    stub,       \* PixelDataBuffer<CRGB>::stub_pixel
    hung,       \* a call recursed without end (it never returns)
    view,       \* view[v]: a LedFB<CRGB> object [w, h, buf, map], buf = 0: none
    probe,      \* one LedFB::at(x, y) evaluation: [w, h, size, map, x, y, ref, done]
    engine,     \* the display engine: [canvas, backbuff, active, cled, overlay, holders,
                \* protect], and bbmaker: who allocated the back buffer (history)
    last        \* the last call, its arguments and what it returned: [op, a, b, ret]

vars == <<alive, data, fb, cled, leds, stub, hung, view, probe, engine, last>>
viewVars == <<view, probe>>

Call(op, a, b, ret) == [op |-> op, a |-> a, b |-> b, ret |-> ret]

Zeros(n) == [i \in 1..n |-> Black]

\* room for one more object
CanCreate == Cardinality({s \in Stores : alive[s]}) < MaxAlive

\* --------------------------------------------------------------- allocator
Owned == {data[s] : s \in Stores} \cap Heap
Referenced == Owned \cup ({leds[k].ptr : k \in Sinks} \cap Heap)

\* operator new returns an address no live vector owns: one nothing refers
\* to, or a freed one that a sink still holds
NewPtrs == {CHOOSE p \in Heap : p \notin Referenced} \cup (Referenced \ Owned)

RefSeq(d, L) ==
    [i \in 1..(NumStores + NumSinks) |->
        IF i <= NumStores THEN d[i] ELSE L[i - NumStores].ptr]

Canon(r, p) ==
    IF p \notin Heap THEN p
    ELSE LET first == CHOOSE i \in DOMAIN r : r[i] = p /\ \A j \in 1..(i - 1) : r[j] # p
         IN  Cardinality({r[j] : j \in 1..first} \cap Heap)

\* the call leaves the vectors at addresses d and the sinks holding L
Commit(d, L) ==
    /\ data' = [s \in Stores |-> Canon(RefSeq(d, L), d[s])]
    /\ leds' = [k \in Sinks |-> [ptr |-> Canon(RefSeq(d, L), L[k].ptr), len |-> L[k].len]]

\* ------------------------------------------------------------ CLedCDB parts
\* cled->setLeds(p, n)
SetLeds(L, k, p, n) == [L EXCEPT ![k] = [ptr |-> p, len |-> n]]

\* void _reset_cled(){ if (cled) {cled->setLeds(fb.data(), fb.size());} }
ResetCled(L, c, p, n) == IF c # NullSink THEN SetLeds(L, c, p, n) ELSE L

\* bind without the exclusivity check: only the null pointer is refused
BindRefused_nullOnly(c, pLed) == pLed = NullSink

\* the two early returns of CLedCDB::bind
BindRefused(c, pLed) == pLed = NullSink \/ (c # NullSink /\ c # pLed)

\* -------------------------------------------------------- topology mapping
\* A coordinate mapper (transpose_t): map_2d, or LedStripe::transpose with its
\* four flags.
Map2D == [stripe |-> FALSE, snake |-> FALSE, vertical |-> FALSE,
          vmirror |-> FALSE, hmirror |-> FALSE]
Stripe(sn, vt, vm, hm) == [stripe |-> TRUE, snake |-> sn, vertical |-> vt,
                           vmirror |-> vm, hmirror |-> hm]
Stripes == {Stripe(sn, vt, vm, hm) : sn \in BOOLEAN, vt \in BOOLEAN,
                                     vm \in BOOLEAN, hm \in BOOLEAN}
Mappers == {Map2D} \cup Stripes

\* static_cast<uint16_t>(v)
TwoPow16 == 65536
U16(v) == v % TwoPow16

\* Arithmetic on unsigned and size_t is modulo 2^32 (both are 32 bits wide on
\* the ESP32 the library is built for). A 32-bit value is held here as an
\* integer congruent to it modulo 2^32 and smaller than 2^31 in magnitude:
\* sums, differences and products stay congruent, the parity is that of the
\* 32-bit value, and a negative integer stands for a value of 2^31 or more.

\* static size_t map_2d(unsigned w, unsigned h, unsigned x, unsigned y)
map_2d(w, h, x, y) == y * w + x

\* transpose whose mirrors reflect to n - v, one past the last row or column
transpose_mirrorOffByOne(m, w, h, x, y) ==
    IF m.vertical
      THEN LET virtual_v_mirror ==
                   IF m.snake /\ ((IF m.hmirror THEN w - x - 1 ELSE x) % 2 = 1)
                     THEN ~m.vmirror ELSE m.vmirror
               xx == IF m.hmirror THEN w - x ELSE x
               yy == IF virtual_v_mirror THEN h - y ELSE y
           IN  xx * h + yy
      ELSE LET virtual_h_mirror ==
                   IF m.snake /\ ((IF m.vmirror THEN h - y - 1 ELSE y) % 2 = 1)
                     THEN ~m.hmirror ELSE m.hmirror
               xx == IF virtual_h_mirror THEN w - x ELSE x
               yy == IF m.vmirror THEN h - y ELSE y
           IN  yy * w + xx

\* transpose whose snake reverses the even rows and columns instead of the odd
transpose_snakeEven(m, w, h, x, y) ==
    IF m.vertical
      THEN LET virtual_v_mirror ==
                   IF m.snake /\ ((IF m.hmirror THEN w - x - 1 ELSE x) % 2 = 0)
                     THEN ~m.vmirror ELSE m.vmirror
               xx == IF m.hmirror THEN w - x - 1 ELSE x
               yy == IF virtual_v_mirror THEN h - y - 1 ELSE y
           IN  xx * h + yy
      ELSE LET virtual_h_mirror ==
                   IF m.snake /\ ((IF m.vmirror THEN h - y - 1 ELSE y) % 2 = 0)
                     THEN ~m.hmirror ELSE m.hmirror
               xx == IF virtual_h_mirror THEN w - x - 1 ELSE x
               yy == IF m.vmirror THEN h - y - 1 ELSE y
           IN  yy * w + xx

\* transpose whose snake takes the parity of the caller's x or y, not of the
\* mirrored row or column
transpose_snakeRawParity(m, w, h, x, y) ==
    IF m.vertical
      THEN LET virtual_v_mirror ==
                   IF m.snake /\ (x % 2 = 1) THEN ~m.vmirror ELSE m.vmirror
               xx == IF m.hmirror THEN w - x - 1 ELSE x
               yy == IF virtual_v_mirror THEN h - y - 1 ELSE y
           IN  xx * h + yy
      ELSE LET virtual_h_mirror ==
                   IF m.snake /\ (y % 2 = 1) THEN ~m.hmirror ELSE m.hmirror
               xx == IF virtual_h_mirror THEN w - x - 1 ELSE x
               yy == IF m.vmirror THEN h - y - 1 ELSE y
           IN  yy * w + xx

\* transpose that ignores the snake flag: every row and column runs the same way
transpose_noSnake(m, w, h, x, y) ==
    IF m.vertical
      THEN LET xx == IF m.hmirror THEN w - x - 1 ELSE x
               yy == IF m.vmirror THEN h - y - 1 ELSE y
           IN  xx * h + yy
      ELSE LET xx == IF m.hmirror THEN w - x - 1 ELSE x
               yy == IF m.vmirror THEN h - y - 1 ELSE y
           IN  yy * w + xx

\* size_t LedStripe::transpose(unsigned w, unsigned h, unsigned x, unsigned y) const
transpose(m, w, h, x, y) ==
    IF m.vertical
      THEN LET virtual_v_mirror ==
                   IF m.snake /\ ((IF m.hmirror THEN w - x - 1 ELSE x) % 2 = 1)
                     THEN ~m.vmirror ELSE m.vmirror
               xx == IF m.hmirror THEN w - x - 1 ELSE x
               yy == IF virtual_v_mirror THEN h - y - 1 ELSE y
           IN  xx * h + yy
      ELSE LET virtual_h_mirror ==
                   IF m.snake /\ ((IF m.vmirror THEN h - y - 1 ELSE y) % 2 = 1)
                     THEN ~m.hmirror ELSE m.hmirror
               xx == IF virtual_h_mirror THEN w - x - 1 ELSE x
               yy == IF m.vmirror THEN h - y - 1 ELSE y
           IN  yy * w + xx

\* _xymap(w, h, x, y)
XYMap(m, w, h, x, y) == IF m.stripe THEN transpose(m, w, h, x, y) ELSE map_2d(w, h, x, y)

\* A LedTiles object: its own LedStripe flags (the layout inside a tile), the
\* tile size and counts, and tileLayout, the flags that chain the tiles.
Tiles(f, l, tw, th, wc, hc) ==
    [flags |-> f, layout |-> l, tile_w |-> tw, tile_h |-> th,
     tile_wcnt |-> wc, tile_hcnt |-> hc]
\* unsigned canvas_w() / canvas_h()
canvas_w(t) == t.tile_w * t.tile_wcnt
canvas_h(t) == t.tile_h * t.tile_hcnt

\* tiled_transpose that finds the tile's row with the tile width
tiled_transpose_rowByWidth(t, w, h, x, y) ==
    LET tile_x == x \div t.tile_w
        tile_y == y \div t.tile_w
        tile_num == transpose(t.layout, t.tile_wcnt, t.tile_hcnt, tile_x, tile_y)
        px_in_tile == transpose(t.flags, t.tile_w, t.tile_h, x % t.tile_w, y % t.tile_h)
    IN  t.tile_w * t.tile_h * tile_num + px_in_tile

\* size_t LedTiles::tiled_transpose(unsigned w, unsigned h, unsigned x, unsigned y) const
tiled_transpose(t, w, h, x, y) ==
    LET tile_x == x \div t.tile_w
        tile_y == y \div t.tile_h
        tile_num == transpose(t.layout, t.tile_wcnt, t.tile_hcnt, tile_x, tile_y)
        px_in_tile == transpose(t.flags, t.tile_w, t.tile_h, x % t.tile_w, y % t.tile_h)
    IN  t.tile_w * t.tile_h * tile_num + px_in_tile

\* LedTiles::transpose without the single-tile shortcut
LedTiles_transpose_noShortcut(t, w, h, x, y) == tiled_transpose(t, w, h, x, y)

\* size_t LedTiles::transpose(unsigned w, unsigned h, unsigned x, unsigned y) const
LedTiles_transpose(t, w, h, x, y) ==
    IF t.tile_wcnt = 1 /\ t.tile_hcnt = 1
      THEN transpose(t.flags, w, h, x, y)
      ELSE tiled_transpose(t, w, h, x, y)

\* COLOR_TYPE& PixelDataBuffer::at(size_t i): the index of the element the
\* reference resolves to, or StubRef for stub_pixel
StubRef == -1
StoreAt(size, i) == IF 0 <= i /\ i < size THEN i ELSE StubRef

\* at(x, y) without the width check
LedFB_at_noWidthCheck(w, h, size, m, x, y) ==
    StoreAt(size, XYMap(m, w, h, U16(x), U16(y)))

\* COLOR_TYPE& LedFB::at(int16_t x, int16_t y) of a view w x h with mapper m
\* over a store of `size` elements
LedFB_at(w, h, size, m, x, y) ==
    IF x >= w THEN StubRef
    ELSE StoreAt(size, XYMap(m, w, h, U16(x), U16(y)))

\* no ESP32RMTDisplayEngine constructed; the fields' default initialisers
NoEngine == [canvas |-> 0, backbuff |-> 0, active |-> TRUE, cled |-> NullSink,
             overlay |-> 0, holders |-> 0, protect |-> FALSE, bbmaker |-> "none"]
NoView == [w |-> 0, h |-> 0, buf |-> 0, map |-> Map2D]
NoProbe == [w |-> 0, h |-> 0, size |-> 0, map |-> Map2D, x |-> 0, y |-> 0,
            ref |-> StubRef, done |-> TRUE]

Init ==
    /\ alive = [s \in Stores |-> FALSE]
    /\ data = [s \in Stores |-> NullPtr]
    /\ fb = [s \in Stores |-> <<>>]
    /\ cled = [s \in Stores |-> NullSink]
    /\ leds = [k \in Sinks |-> [ptr |-> NullPtr, len |-> 0]]
    /\ stub = Black
    /\ hung = FALSE
    /\ view = [v \in Views |-> NoView]
    /\ engine = NoEngine
    /\ probe = NoProbe
    /\ last = Call("none", 0, 0, "void")

\* PixelDataBuffer(size_t size) : fb(size) / CLedCDB(size_t size)
Construct(s, n) ==
    /\ ~hung /\ ~alive[s] /\ CanCreate
    /\ \E p \in (IF n = 0 THEN {NullPtr} ELSE NewPtrs) :
          Commit([data EXCEPT ![s] = p], leds)
    /\ alive' = [alive EXCEPT ![s] = TRUE]
    /\ fb' = [fb EXCEPT ![s] = Zeros(n)]
    /\ cled' = [cled EXCEPT ![s] = NullSink]
    /\ last' = Call("construct", s, n, "void")
    /\ UNCHANGED <<stub, hung, view, probe, engine>>

\* bind that stores the pointer and forgets _reset_cled()
BindLeds_noReset(L, pLed, p, n) == L

\* the sinks after a successful bind: cled = pLed; _reset_cled();
BindLeds(L, pLed, p, n) == ResetCled(L, pLed, p, n)

\* bool CLedCDB::bind(CLEDController *pLed)
Bind(a, pLed) ==
    /\ ~hung /\ alive[a]
    /\ IF BindRefused(cled[a], pLed)
         THEN /\ last' = Call("bind", a, pLed, "false")
              /\ UNCHANGED <<cled, data, leds>>
         ELSE /\ cled' = [cled EXCEPT ![a] = pLed]
              /\ Commit(data, BindLeds(leds, pLed, data[a], Len(fb[a])))
              /\ last' = Call("bind", a, pLed, "true")
    /\ UNCHANGED <<alive, fb, stub, hung, view, probe, engine>>

\* CLedCDB::CLedCDB(CLedCDB&& rhs): the new object s is move-constructed from r
MoveConstruct(s, r) ==
    /\ ~hung /\ ~alive[s] /\ alive[r] /\ CanCreate
    /\ alive' = [alive EXCEPT ![s] = TRUE]
    /\ fb' = [fb EXCEPT ![s] = fb[r], ![r] = <<>>]              \* fb(std::move(rhs.fb))
    /\ cled' = [cled EXCEPT ![s] = cled[r], ![r] = NullSink]    \* steal cled pointer
    /\ Commit([data EXCEPT ![s] = data[r], ![r] = NullPtr],
              ResetCled(leds, cled[r], data[r], Len(fb[r])))
    /\ last' = Call("moveConstruct", s, r, "void")
    /\ UNCHANGED <<stub, hung, view, probe, engine>>

\* operator=(CLedCDB&&) without the workaround: our own controller keeps
\* what it was attached to
MoveAssignPark_none(L, c, rc) == L

\* which pointer operator=(CLedCDB&&) leaves in cled
MoveAssignCled(c, rc) == IF rc # NullSink THEN rc ELSE c

\* the workaround of operator=(CLedCDB&&): park our own controller on the blackhole
MoveAssignPark(L, c, rc) ==
    IF c # NullSink /\ rc # NullSink /\ c # rc THEN SetLeds(L, c, BlackholePtr, 1) ELSE L

\* CLedCDB& CLedCDB::operator=(CLedCDB&& rhs), a = std::move(b) for two objects
MoveAssign(a, b) ==
    /\ ~hung /\ alive[a] /\ alive[b] /\ a # b
    /\ fb' = [fb EXCEPT ![a] = fb[b], ![b] = <<>>]              \* fb = std::move(rhs.fb)
    /\ cled' = [cled EXCEPT ![a] = MoveAssignCled(cled[a], cled[b]), ![b] = NullSink]
    /\ Commit([data EXCEPT ![a] = data[b], ![b] = NullPtr],
              ResetCled(MoveAssignPark(leds, cled[a], cled[b]),
                        MoveAssignCled(cled[a], cled[b]), data[b], Len(fb[b])))
    /\ last' = Call("moveAssign", a, b, "void")
    /\ UNCHANGED <<alive, stub, hung, view, probe, engine>>

\* what the destructor does to the sinks: CLedCDB::~CLedCDB, nothing for the base class
DtorLeds(L, s) ==
    IF s \in CDBs /\ cled[s] # NullSink THEN SetLeds(L, cled[s], BlackholePtr, 1) ELSE L

\* ~CLedCDB() / ~PixelDataBuffer(): then the vector releases its allocation
Destroy(s) ==
    /\ ~hung /\ alive[s]
    /\ \A v \in Views : view[v].buf # s        \* no shared_ptr of a view holds it
    /\ Commit([data EXCEPT ![s] = NullPtr], DtorLeds(leds, s))
    /\ alive' = [alive EXCEPT ![s] = FALSE]
    /\ fb' = [fb EXCEPT ![s] = <<>>]
    /\ cled' = [cled EXCEPT ![s] = NullSink]
    /\ last' = Call("destroy", s, 0, "void")
    /\ UNCHANGED <<stub, hung, view, probe, engine>>

\* swap that leaves the sinks on the storage they had
SwapLeds_noReset(L, a, b) == L

\* the sinks after swap(CLedCDB&): _reset_cled(); rhs._reset_cled(); on swapped storage
SwapLeds(L, a, b) ==
    ResetCled(ResetCled(L, cled[a], data[b], Len(fb[b])), cled[b], data[a], Len(fb[a]))

\* void CLedCDB::swap(CLedCDB& rhs)
Swap(a, b) ==
    /\ ~hung /\ alive[a] /\ alive[b]
    /\ fb' = [fb EXCEPT ![a] = fb[b], ![b] = fb[a]]             \* std::swap(fb, rhs.fb)
    /\ Commit([data EXCEPT ![a] = data[b], ![b] = data[a]], SwapLeds(leds, a, b))
    /\ last' = Call("swap", a, b, "void")
    /\ UNCHANGED <<alive, cled, stub, hung, view, probe, engine>>

\* virtual void swap(PixelDataBuffer& rhs), dispatched on the dynamic type of a:
\*   PixelDataBuffer::swap   std::swap(fb, rhs.fb)
\*   CLedCDB::swap           rhs.swap(*this); _reset_cled();
\* With a and b both CLedCDB the two overrides call each other without end.
SwapBase(a, b) ==
    /\ ~hung /\ alive[a] /\ alive[b]
    /\ IF a \in CDBs /\ b \in CDBs
         THEN /\ hung' = TRUE
              /\ UNCHANGED <<data, fb, leds>>
         ELSE /\ fb' = [fb EXCEPT ![a] = fb[b], ![b] = fb[a]]
              /\ Commit([data EXCEPT ![a] = data[b], ![b] = data[a]],
                        IF a \in CDBs
                          THEN ResetCled(leds, cled[a], data[b], Len(fb[b]))
                          ELSE leds)
              /\ UNCHANGED hung
    /\ last' = Call("swapBase", a, b, "void")
    /\ UNCHANGED <<alive, cled, stub, view, probe, engine>>

\* fb.resize(s): the address a vector can have afterwards. Shrinking never
\* reallocates; growing stays in place when the capacity allows it and
\* otherwise moves to a new allocation.
ResizePtrs(s, n) ==
    IF n <= Len(fb[s]) THEN {data[s]}
    ELSE NewPtrs \cup (IF data[s] # NullPtr THEN {data[s]} ELSE {})

\* PixelDataBuffer::resize: fb.resize(s); clear();
ResizeFb(n) == Zeros(n)

\* resize that forgets _reset_cled()
ResizeLeds_noReset(L, c, p, n) == L

\* the sinks after CLedCDB::resize: _reset_cled()
ResizeLeds(L, c, p, n) == ResetCled(L, c, p, n)

\* the effect of resize(n) on store s, PixelDataBuffer::resize or the override
\* CLedCDB::resize by the dynamic type of s
DoResize(s, n) ==
    /\ \E p \in ResizePtrs(s, n) :
          Commit([data EXCEPT ![s] = p],
                 IF s \in CDBs THEN ResizeLeds(leds, cled[s], p, Len(ResizeFb(n)))
                               ELSE leds)
    /\ fb' = [fb EXCEPT ![s] = ResizeFb(n)]

\* bool PixelDataBuffer::resize(size_t s) / bool CLedCDB::resize(size_t s)
Resize(s, n) ==
    /\ ~hung /\ alive[s]
    /\ DoResize(s, n)
    /\ last' = Call("resize", s, n, IF Len(ResizeFb(n)) = n THEN "true" ELSE "false")
    /\ UNCHANGED <<alive, cled, stub, hung, view, probe, engine>>

\* rebind that leaves both controller pointers where they were
RebindCled_none(a, b) == cled

\* the bindings after rebind: std::swap(cled, rhs.cled)
RebindCled(a, b) == [cled EXCEPT ![a] = cled[b], ![b] = cled[a]]

\* rebind that leaves the sinks on the storage they had
RebindLeds_noReset(L, a, b) == L

\* the sinks after rebind: _reset_cled(); rhs._reset_cled(); with swapped bindings
RebindLeds(L, a, b) ==
    ResetCled(ResetCled(L, cled[b], data[a], Len(fb[a])), cled[a], data[b], Len(fb[b]))

\* void CLedCDB::rebind(CLedCDB &rhs)
Rebind(a, b) ==
    /\ ~hung /\ alive[a] /\ alive[b]
    /\ cled' = RebindCled(a, b)
    /\ Commit(data, RebindLeds(leds, a, b))
    /\ last' = Call("rebind", a, b, "void")
    /\ UNCHANGED <<alive, fb, stub, hung, view, probe, engine>>

\* void PixelDataBuffer::fill(COLOR_TYPE color){ fb.assign(fb.size(), color); }
Fill(s, c) ==
    /\ ~hung /\ alive[s]
    /\ fb' = [fb EXCEPT ![s] = [i \in 1..Len(fb[s]) |-> c]]
    /\ last' = Call("fill", s, c, "void")
    /\ UNCHANGED <<alive, data, cled, leds, stub, hung, view, probe, engine>>

\* void PixelDataBuffer::clear(){ fill(COLOR_TYPE()); }
Clear(s) ==
    /\ ~hung /\ alive[s]
    /\ fb' = [fb EXCEPT ![s] = [i \in 1..Len(fb[s]) |-> Black]]
    /\ last' = Call("clear", s, 0, "void")
    /\ UNCHANGED <<alive, data, cled, leds, stub, hung, view, probe, engine>>

\* store.at(i) = c
WriteAt(s, i, c) ==
    /\ ~hung /\ alive[s]
    /\ IF StoreAt(Len(fb[s]), i) = StubRef
         THEN /\ stub' = c
              /\ last' = Call("writeAt", s, i, "stub")
              /\ UNCHANGED fb
         ELSE /\ fb' = [fb EXCEPT ![s][StoreAt(Len(fb[s]), i) + 1] = c]
              /\ last' = Call("writeAt", s, i, "elem")
              /\ UNCHANGED stub
    /\ UNCHANGED <<alive, data, cled, leds, hung, view, probe, engine>>

\* ------------------------------------------------------------------ views
\* the mappers a view is given in the store-level runs
PixelMappers == {Map2D, Stripe(TRUE, FALSE, FALSE, FALSE), Stripe(TRUE, TRUE, FALSE, TRUE)}
\* the stores of the store-level runs: one CLedCDB, one PixelDataBuffer
PixelStores == {1, NumStores}
\* the view of the store-level runs
PixelViews == {1}
\* the int16_t coordinates tried on the small views
ViewCoords == (0 - 1)..(MaxLen + 1)

\* LedFB(uint16_t w, uint16_t h, std::shared_ptr<PixelDataBuffer<COLOR_TYPE>> fb)
NewView(v, w, h, s) ==
    /\ ~hung /\ view[v].buf = 0 /\ alive[s] /\ w * h <= MaxLen
    /\ IF Len(fb[s]) # w * h
         THEN DoResize(s, w * h)
         ELSE UNCHANGED <<data, fb, leds>>
    /\ view' = [view EXCEPT ![v] = [w |-> w, h |-> h, buf |-> s, map |-> Map2D]]
    /\ last' = Call("newView", v, s, "void")
    /\ UNCHANGED <<alive, cled, stub, hung, probe, engine>>

\* LedFB(LedFB const & rhs): the new view shares rhs's store and takes its
\* dimensions, with the default mapper
CopyView(v, r) ==
    /\ ~hung /\ view[v].buf = 0 /\ view[r].buf # 0
    /\ view' = [view EXCEPT ![v] = [w |-> view[r].w, h |-> view[r].h,
                                    buf |-> view[r].buf, map |-> Map2D]]
    /\ last' = Call("copyView", v, r, "void")
    /\ UNCHANGED <<alive, data, fb, cled, leds, stub, hung, probe, engine>>

\* bool LedFB::resize(uint16_t w, uint16_t h)
ViewResize(v, w, h) ==
    /\ ~hung /\ view[v].buf # 0 /\ w * h <= MaxLen
    /\ DoResize(view[v].buf, w * h)
    /\ IF Len(ResizeFb(w * h)) = w * h
         THEN /\ view' = [view EXCEPT ![v].w = w, ![v].h = h]
              /\ last' = Call("viewResize", v, w * h, "true")
         ELSE /\ UNCHANGED view
              /\ last' = Call("viewResize", v, w * h, "false")
    /\ UNCHANGED <<alive, cled, stub, hung, probe, engine>>

\* ~LedFB(): the view releases its shared_ptr
DropView(v) ==
    /\ ~hung /\ view[v].buf # 0
    /\ view' = [view EXCEPT ![v] = NoView]
    /\ last' = Call("dropView", v, 0, "void")
    /\ UNCHANGED <<alive, data, fb, cled, leds, stub, hung, probe, engine>>

\* void setRemapFunction(transpose_t mapper){ _xymap = mapper; }
SetRemapFunction(v, m) ==
    /\ ~hung /\ view[v].buf # 0
    /\ view' = [view EXCEPT ![v].map = m]
    /\ last' = Call("setRemapFunction", v, 0, "void")
    /\ UNCHANGED <<alive, data, fb, cled, leds, stub, hung, probe, engine>>

\* the reference view v hands out for (x, y)
ViewRef(v, x, y) ==
    LedFB_at(view[v].w, view[v].h, Len(fb[view[v].buf]), view[v].map, x, y)

\* view.at(x, y) = c
ViewWrite(v, x, y, c) ==
    /\ ~hung /\ view[v].buf # 0
    /\ IF ViewRef(v, x, y) = StubRef
         THEN /\ stub' = c
              /\ last' = Call("viewWrite", v, x, "stub")
              /\ UNCHANGED fb
         ELSE /\ fb' = [fb EXCEPT ![view[v].buf][ViewRef(v, x, y) + 1] = c]
              /\ last' = Call("viewWrite", v, x, "elem")
              /\ UNCHANGED stub
    /\ UNCHANGED <<alive, data, cled, leds, hung, view, probe, engine>>

\* ---------------------------------------------------------- display engine
\* ESP32RMTDisplayEngine. Its canvas and back buffer are the two CLedCDB
\* objects, its controller is the first sink.
CanvasStore == 1
BackStore == 2
EngineSink == 1

\* what FastLED.show() may transmit for controller k: the len elements at
\* ptr. Memory no live vector owns reads as anything at all.
FramesIn(f, d, L, k) ==
    IF L[k].len = 0 THEN {<<>>}
    ELSE IF L[k].ptr = BlackholePtr THEN {<<Black>>}
    ELSE IF \E s \in Stores : d[s] # NullPtr /\ d[s] = L[k].ptr /\ L[k].len <= Len(f[s])
           THEN LET s == CHOOSE s \in Stores :
                             d[s] # NullPtr /\ d[s] = L[k].ptr /\ L[k].len <= Len(f[s])
                IN  {SubSeq(f[s], 1, L[k].len)}
    ELSE [1..L[k].len -> Colors]
Frames(k) == FramesIn(fb, data, leds, k)

\* ESP32RMTDisplayEngine(gpio, rgb_order, buffsize): make_shared<CLedCDB>(buffsize),
\* FastLED.addLeds, canvas->bind(cled), FastLED.show()
EngineConstruct(n) ==
    /\ ~hung /\ engine.canvas = 0 /\ ~alive[CanvasStore]
    /\ alive' = [alive EXCEPT ![CanvasStore] = TRUE]
    /\ fb' = [fb EXCEPT ![CanvasStore] = Zeros(n)]
    /\ cled' = [cled EXCEPT ![CanvasStore] = EngineSink]
    /\ \E p \in (IF n = 0 THEN {NullPtr} ELSE NewPtrs) :
          Commit([data EXCEPT ![CanvasStore] = p],
                 BindLeds(SetLeds(leds, EngineSink, p, n), EngineSink, p, n))
    /\ engine' = [NoEngine EXCEPT !.canvas = CanvasStore, !.cled = EngineSink]
    /\ last' = Call("engine", n, 0, Zeros(n))     \* FastLED.show() of the new canvas
    /\ UNCHANGED <<stub, hung, view, probe>>

\* the buffer show() is meant to render: canvas, or the back buffer after a toggle
ActiveBuffer == IF engine.active THEN engine.canvas ELSE engine.backbuff

\* void ESP32RMTDisplayEngine::engine_show(){ FastLED.show(); }
Show ==
    /\ ~hung /\ engine.canvas # 0
    /\ \E f \in Frames(engine.cled) : last' = Call("show", 0, 0, f)
    /\ UNCHANGED <<alive, data, fb, cled, leds, stub, hung, view, probe, engine>>

\* doubleBuffer(false): the bindings after "if (backbuff->isBound()) canvas->rebind(*backbuff)"
ReleaseCled_noRebind(c, bb) == cled
ReleaseCled(c, bb) == IF cled[bb] # NullSink THEN RebindCled(c, bb) ELSE cled
ReleaseLeds_noRebind(L, c, bb) == L
ReleaseLeds(L, c, bb) == IF cled[bb] # NullSink THEN RebindLeds(L, c, bb) ELSE L

\* void ESP32RMTDisplayEngine::doubleBuffer(bool active)
DoubleBuffer(active) ==
    /\ ~hung /\ engine.canvas # 0
    /\ IF active /\ engine.backbuff = 0
         THEN /\ alive' = [alive EXCEPT ![BackStore] = TRUE]
              /\ fb' = [fb EXCEPT ![BackStore] = Zeros(Len(fb[engine.canvas]))]
              /\ cled' = [cled EXCEPT ![BackStore] = NullSink]
              /\ \E p \in (IF Len(fb[engine.canvas]) = 0 THEN {NullPtr} ELSE NewPtrs) :
                    Commit([data EXCEPT ![BackStore] = p], leds)
              /\ engine' = [engine EXCEPT !.backbuff = BackStore, !.bbmaker = "client"]
         ELSE IF ~active /\ engine.backbuff # 0
         THEN LET c == engine.canvas
                  bb == engine.backbuff
                  cled1 == ReleaseCled(c, bb)
                  leds1 == ReleaseLeds(leds, c, bb)
                  \* backbuff.reset(): ~CLedCDB() of the back buffer
                  leds2 == IF cled1[bb] # NullSink
                             THEN SetLeds(leds1, cled1[bb], BlackholePtr, 1) ELSE leds1
              IN  /\ alive' = [alive EXCEPT ![bb] = FALSE]
                  /\ fb' = [fb EXCEPT ![bb] = <<>>]
                  /\ cled' = [cled1 EXCEPT ![bb] = NullSink]
                  /\ Commit([data EXCEPT ![bb] = NullPtr], leds2)
                  /\ engine' = [engine EXCEPT !.backbuff = 0, !.active = TRUE,
                                               !.bbmaker = "none"]
         ELSE UNCHANGED <<alive, data, fb, cled, leds, engine>>
    \* the call is recorded with the controller its back buffer held on entry
    /\ last' = Call("doubleBuffer", active,
                    IF engine.backbuff # 0 THEN cled[engine.backbuff] ELSE NullSink, "void")
    /\ UNCHANGED <<stub, hung, view, probe>>

\* void ESP32RMTDisplayEngine::flipBuffer()
FlipBuffer ==
    /\ ~hung /\ engine.canvas # 0
    /\ IF engine.backbuff # 0
         THEN LET c == engine.canvas
                  bb == engine.backbuff
              IN  /\ fb' = [fb EXCEPT ![c] = fb[bb], ![bb] = fb[c]]
                  /\ Commit([data EXCEPT ![c] = data[bb], ![bb] = data[c]],
                            SwapLeds(leds, c, bb))
         ELSE UNCHANGED <<data, fb, leds>>
    /\ last' = Call("flipBuffer", 0, 0, "void")
    /\ UNCHANGED <<alive, cled, stub, hung, view, probe, engine>>

\* bool ESP32RMTDisplayEngine::toggleBuffer()
ToggleBuffer ==
    /\ ~hung /\ engine.canvas # 0
    /\ IF engine.backbuff # 0
         THEN /\ cled' = RebindCled(engine.canvas, engine.backbuff)
              /\ Commit(data, RebindLeds(leds, engine.canvas, engine.backbuff))
              /\ engine' = [engine EXCEPT !.active = ~engine.active]
              /\ last' = Call("toggleBuffer", 0, 0, ~engine.active)
         ELSE /\ UNCHANGED <<data, cled, leds, engine>>
              /\ last' = Call("toggleBuffer", 0, 0, engine.active)
    /\ UNCHANGED <<alive, fb, stub, hung, view, probe>>

\* dst->data() = src->data(): the vector's copy assignment; no _reset_cled()
CopyData(dst, src) ==
    /\ fb' = [fb EXCEPT ![dst] = fb[src]]
    /\ \E p \in (IF Len(fb[src]) = 0 THEN {data[dst]} ELSE ResizePtrs(dst, Len(fb[src]))) :
          Commit([data EXCEPT ![dst] = p], leds)

\* void ESP32RMTDisplayEngine::copyBack2Front()
CopyBack2Front ==
    /\ ~hung /\ engine.canvas # 0
    /\ IF engine.backbuff # 0
         THEN CopyData(engine.canvas, engine.backbuff)
         ELSE UNCHANGED <<data, fb, leds>>
    /\ last' = Call("copyBack2Front", 0, 0, "void")
    /\ UNCHANGED <<alive, cled, stub, hung, view, probe, engine>>

\* void ESP32RMTDisplayEngine::copyFront2Back()
CopyFront2Back ==
    /\ ~hung /\ engine.canvas # 0
    /\ IF engine.backbuff # 0
         THEN CopyData(engine.backbuff, engine.canvas)
         ELSE UNCHANGED <<data, fb, leds>>
    /\ last' = Call("copyFront2Back", 0, 0, "void")
    /\ UNCHANGED <<alive, cled, stub, hung, view, probe, engine>>

\* void ESP32RMTDisplayEngine::clear()
EngineClear ==
    /\ ~hung /\ engine.canvas # 0
    /\ LET fb1 == [s \in Stores |->
                     IF s = engine.canvas \/ (engine.backbuff # 0 /\ s = engine.backbuff)
                       THEN Zeros(Len(fb[s])) ELSE fb[s]]
       IN  /\ fb' = fb1
           \* FastLED.show()
           /\ \E f \in FramesIn(fb1, data, leds, engine.cled) :
                 last' = Call("engineClear", 0, 0, f)
    /\ UNCHANGED <<alive, data, cled, leds, stub, hung, view, probe, engine>>

\* attachCanvas(fb): "if (cled) return false"
AttachRefused_never(c) == FALSE
AttachRefused(c) == c # NullSink

\* bool ESP32RMTDisplayEngine::attachCanvas(std::shared_ptr<CLedCDB> &fb), on
\* an engine made by ESP32RMTDisplayEngine(gpio, rgb_order) or already attached
AttachCanvas(s) ==
    /\ ~hung /\ alive[s]
    /\ IF AttachRefused(engine.cled)
         THEN /\ UNCHANGED <<data, cled, leds, engine>>
              /\ last' = Call("attachCanvas", s, 0, FALSE)
         ELSE \* FastLED.addLeds(wsstrip, data, size); canvas->bind(cled); FastLED.show()
              LET L0 == SetLeds(leds, EngineSink, data[s], Len(fb[s]))
                  refused == BindRefused(cled[s], EngineSink)
                  L1 == IF refused THEN L0
                        ELSE BindLeds(L0, EngineSink, data[s], Len(fb[s]))
              IN  /\ cled' = IF refused THEN cled ELSE [cled EXCEPT ![s] = EngineSink]
                  /\ Commit(data, L1)
                  /\ engine' = [engine EXCEPT !.canvas = s, !.cled = EngineSink]
                  /\ last' = Call("attachCanvas", s, 0, TRUE)
    /\ UNCHANGED <<alive, fb, stub, hung, view, probe>>

\* ------------------------------------------------- display engine, HUB75
\* The HUB75 engine owns plain PixelDataBuffer<CRGB> buffers and a
\* MatrixPanel_I2S_DMA object. It is kept in the probe record: the panel
\* configuration, the elements of canvas and backbuff, _active_buff, and
\* screen, the panel's DMA frame in row-major order.
NoPanel == [kind |-> "hub75", made |-> FALSE, mx_width |-> 0, mx_height |-> 0,
            canvas |-> <<>>, backbuff |-> <<>>, hasbb |-> FALSE, active |-> TRUE,
            screen |-> <<>>]

PanelDims == 1..MaxPanel

\* make_shared<PixelDataBuffer<CRGB>>(config.mx_height * config.mx_height)
Hub75CanvasSize(w, h) == h * h

\* the coordinates engine_show passes to drawPixelRGB888 for element i:
\* i % mx_width, i / mx_width
Hub75Coord(w, i) == <<i % w, i \div w>>

\* the coordinates one engine_show sends, element by element
Hub75Sent(w, n) == [i \in 1..n |-> Hub75Coord(w, i - 1)]

\* the DMA frame after the loop of engine_show over buf: every pixel takes the
\* last element sent to its coordinate (drawPixelRGB888 drops the coordinates
\* outside the panel)
Hub75Draw(screen, w, h, buf) ==
    [j \in 1..(w * h) |->
        LET hits == {i \in 1..Len(buf) : Hub75Coord(w, i - 1) = Hub75Coord(w, j - 1)}
        IN  IF hits = {} THEN screen[j]
            ELSE buf[CHOOSE i \in hits : \A k \in hits : k <= i]]

\* ESP32HUB75_DisplayEngine(const HUB75_I2S_CFG &config)
Hub75Construct(w, h) ==
    /\ ~hung /\ probe.kind = "hub75" /\ ~probe.made
    /\ probe' = [NoPanel EXCEPT !.made = TRUE, !.mx_width = w, !.mx_height = h,
                                !.canvas = Zeros(Hub75CanvasSize(w, h)),
                                !.screen = Zeros(w * h)]
    /\ last' = Call("hub75.engine", w, h, "void")
    /\ UNCHANGED <<alive, data, fb, cled, leds, stub, hung, view, engine>>

\* a client fills the buffer it got from getBuffer() or from getBackBuffer(),
\* which hands out the canvas while there is no back buffer
Hub75Fill(front, c) ==
    /\ ~hung /\ probe.kind = "hub75" /\ probe.made
    /\ probe' = IF front \/ ~probe.hasbb
                  THEN [probe EXCEPT !.canvas = [i \in 1..Len(probe.canvas) |-> c]]
                  ELSE [probe EXCEPT !.backbuff = [i \in 1..Len(probe.backbuff) |-> c]]
    /\ last' = Call("hub75.fill", front, c, "void")
    /\ UNCHANGED <<alive, data, fb, cled, leds, stub, hung, view, engine>>

\* void ESP32HUB75_DisplayEngine::clear()
Hub75Clear ==
    /\ ~hung /\ probe.kind = "hub75" /\ probe.made
    /\ probe' = [probe EXCEPT !.canvas = Zeros(Len(probe.canvas)),
                              !.backbuff = Zeros(Len(probe.backbuff)),
                              !.screen = Zeros(Len(probe.screen))]   \* hub75.clearScreen()
    /\ last' = Call("hub75.clear", 0, 0, "void")
    /\ UNCHANGED <<alive, data, fb, cled, leds, stub, hung, view, engine>>

\* void ESP32HUB75_DisplayEngine::engine_show(); with _active_buff false and
\* no back buffer it dereferences a null shared_ptr
Hub75EngineShow ==
    /\ ~hung /\ probe.kind = "hub75" /\ probe.made
    /\ IF probe.active \/ probe.hasbb
         THEN LET buf == IF probe.active THEN probe.canvas ELSE probe.backbuff
              IN  /\ probe' = [probe EXCEPT !.screen =
                                   Hub75Draw(probe.screen, probe.mx_width,
                                             probe.mx_height, buf)]
                  /\ last' = Call("hub75.show", 0, 0, Hub75Sent(probe.mx_width, Len(buf)))
                  /\ UNCHANGED hung
         ELSE /\ hung' = TRUE
              /\ last' = Call("hub75.show", 0, 0, <<>>)
              /\ UNCHANGED probe
    /\ UNCHANGED <<alive, data, fb, cled, leds, stub, view, engine>>

\* void ESP32HUB75_DisplayEngine::doubleBuffer(bool active)
Hub75DoubleBuffer(active) ==
    /\ ~hung /\ probe.kind = "hub75" /\ probe.made
    /\ probe' = IF active /\ ~probe.hasbb
                  THEN [probe EXCEPT !.hasbb = TRUE,
                                     !.backbuff = Zeros(Len(probe.canvas))]
                  ELSE IF ~active /\ probe.hasbb
                  THEN [probe EXCEPT !.hasbb = FALSE, !.backbuff = <<>>,
                                     !.active = TRUE]
                  ELSE probe
    /\ last' = Call("hub75.doubleBuffer", active, 0, "void")
    /\ UNCHANGED <<alive, data, fb, cled, leds, stub, hung, view, engine>>

\* void ESP32HUB75_DisplayEngine::flipBuffer(): PixelDataBuffer::swap
Hub75FlipBuffer ==
    /\ ~hung /\ probe.kind = "hub75" /\ probe.made
    /\ probe' = IF probe.hasbb
                  THEN [probe EXCEPT !.canvas = probe.backbuff,
                                     !.backbuff = probe.canvas]
                  ELSE probe
    /\ last' = Call("hub75.flipBuffer", 0, 0, "void")
    /\ UNCHANGED <<alive, data, fb, cled, leds, stub, hung, view, engine>>

\* toggleBuffer() that flips the flag whether or not a back buffer exists
Hub75Toggled_always(hasbb, active) == ~active

\* _active_buff after "if (backbuff) _active_buff = !_active_buff;"
Hub75Toggled(hasbb, active) == IF hasbb THEN ~active ELSE active

\* bool ESP32HUB75_DisplayEngine::toggleBuffer()
Hub75ToggleBuffer ==
    /\ ~hung /\ probe.kind = "hub75" /\ probe.made
    /\ probe' = [probe EXCEPT !.active = Hub75Toggled(probe.hasbb, probe.active)]
    /\ last' = Call("hub75.toggleBuffer", 0, 0, Hub75Toggled(probe.hasbb, probe.active))
    /\ UNCHANGED <<alive, data, fb, cled, leds, stub, hung, view, engine>>

\* void ESP32HUB75_DisplayEngine::copyBack2Front(): *canvas = *backbuff
Hub75CopyBack2Front ==
    /\ ~hung /\ probe.kind = "hub75" /\ probe.made
    /\ probe' = IF probe.hasbb THEN [probe EXCEPT !.canvas = probe.backbuff] ELSE probe
    /\ last' = Call("hub75.copyBack2Front", 0, 0, "void")
    /\ UNCHANGED <<alive, data, fb, cled, leds, stub, hung, view, engine>>

\* void ESP32HUB75_DisplayEngine::copyFront2Back(): *backbuff = *canvas
Hub75CopyFront2Back ==
    /\ ~hung /\ probe.kind = "hub75" /\ probe.made
    /\ probe' = IF probe.hasbb THEN [probe EXCEPT !.backbuff = probe.canvas] ELSE probe
    /\ last' = Call("hub75.copyFront2Back", 0, 0, "void")
    /\ UNCHANGED <<alive, data, fb, cled, leds, stub, hung, view, engine>>

\* ------------------------------------------- display engine, overlay variant
\* engine_show() with overlay mixing, getOverlay(), _ovr_overlap() and
\* _switch_to_bb(). This revision declares them (ledfb.hpp) and keeps their
\* bodies as disabled text; they are modelled as that text and the
\* specification's show() algorithm give them.
OverlayStore == NumStores
Transparent == Black

\* std::weak_ptr<CLedCDB> overlay: the overlay is destroyed, and the weak
\* handle expires, when n shared handles are left and n is zero
Expires_engineOwns(n) == FALSE
Expires(n) == n = 0

\* getOverlay(): lock the weak handle, make an overlay of canvas size if it
\* expired; the caller receives one more shared handle
GetOverlay ==
    /\ ~hung /\ engine.canvas # 0 /\ engine.holders < MaxHolders
    /\ IF engine.overlay = 0
         THEN /\ alive' = [alive EXCEPT ![OverlayStore] = TRUE]
              /\ fb' = [fb EXCEPT ![OverlayStore] = Zeros(Len(fb[engine.canvas]))]
              /\ \E p \in (IF Len(fb[engine.canvas]) = 0 THEN {NullPtr} ELSE NewPtrs) :
                    Commit([data EXCEPT ![OverlayStore] = p], leds)
              /\ engine' = [engine EXCEPT !.overlay = OverlayStore, !.holders = 1]
         ELSE /\ UNCHANGED <<alive, data, fb, leds>>
              /\ engine' = [engine EXCEPT !.holders = @ + 1]
    \* the call is recorded with the overlay and the handles it found on entry
    /\ last' = Call("getOverlay", engine.overlay, engine.holders, OverlayStore)
    /\ UNCHANGED <<cled, stub, hung, view, probe>>

\* a holder of an overlay handle lets go of it; with the last one the
\* overlay is destroyed and the engine's weak handle expires
ReleaseOverlay ==
    /\ ~hung /\ engine.holders > 0
    /\ IF Expires(engine.holders - 1)
         THEN /\ alive' = [alive EXCEPT ![engine.overlay] = FALSE]
              /\ fb' = [fb EXCEPT ![engine.overlay] = <<>>]
              /\ Commit([data EXCEPT ![engine.overlay] = NullPtr], leds)
              /\ engine' = [engine EXCEPT !.overlay = 0, !.holders = 0]
         ELSE /\ UNCHANGED <<alive, data, fb, leds>>
              /\ engine' = [engine EXCEPT !.holders = @ - 1]
    /\ last' = Call("releaseOverlay", engine.overlay, engine.holders, "void")
    /\ UNCHANGED <<cled, stub, hung, view, probe>>

\* void canvasProtect(bool v){ _canvas_protect = v; }
CanvasProtect(v) ==
    /\ ~hung /\ engine.canvas # 0
    /\ engine' = [engine EXCEPT !.protect = v]
    /\ last' = Call("canvasProtect", v, 0, "void")
    /\ UNCHANGED <<alive, data, fb, cled, leds, stub, hung, view, probe>>

\* _ovr_overlap(): the pixels it writes, overlay ov over canvas cv
Overlap(cv, ov) ==
    [i \in 1..Len(cv) |-> IF ov[i] = Transparent THEN cv[i] ELSE ov[i]]

\* _ovr_overlap(): the buffer it writes into
OverlapTarget_canvas(c, bb) == c
OverlapTarget(c, bb) == IF bb # 0 THEN bb ELSE c

\* engine_show(): the controllers after "canvas->rebind(*backbuff.get())"
\* that precedes backbuff.reset()
ShowReleaseLeds(L, c, bb) == RebindLeds(L, c, bb)

\* engine_show() with overlay mixing
ShowOverlay ==
    /\ ~hung /\ engine.canvas # 0
    /\ LET c == engine.canvas
           ov == engine.overlay
           switch == ov # 0 /\ engine.protect /\ engine.backbuff = 0
           release == engine.backbuff # 0 /\ (ov = 0 \/ ~engine.protect)
           bb == IF switch THEN BackStore ELSE IF release THEN 0 ELSE engine.backbuff
       IN  \E p \in (IF Len(fb[c]) = 0 THEN {NullPtr} ELSE NewPtrs) :
           LET \* _switch_to_bb(): make_unique<CLedCDB>(canvas->size()); backbuff->rebind(*canvas)
               \* or: canvas->rebind(*backbuff.get()); backbuff.reset()
               alive1 == IF switch THEN [alive EXCEPT ![BackStore] = TRUE]
                         ELSE IF release THEN [alive EXCEPT ![engine.backbuff] = FALSE]
                         ELSE alive
               fb1 == IF switch THEN [fb EXCEPT ![BackStore] = Zeros(Len(fb[c]))]
                      ELSE IF release THEN [fb EXCEPT ![engine.backbuff] = <<>>]
                      ELSE fb
               data1 == IF switch THEN [data EXCEPT ![BackStore] = p]
                        ELSE IF release THEN [data EXCEPT ![engine.backbuff] = NullPtr]
                        ELSE data
               cledS == [cled EXCEPT ![BackStore] = cled[c], ![c] = NullSink]
               cledR == RebindCled(c, engine.backbuff)
               cled1 == IF switch THEN cledS
                        ELSE IF release THEN [cledR EXCEPT ![engine.backbuff] = NullSink]
                        ELSE cled
               leds1 == IF switch THEN ResetCled(leds, cledS[BackStore], p, Len(fb[c]))
                        ELSE IF release
                        THEN LET L == ShowReleaseLeds(leds, c, engine.backbuff)
                             IN  IF cledR[engine.backbuff] # NullSink
                                   THEN SetLeds(L, cledR[engine.backbuff], BlackholePtr, 1)
                                   ELSE L
                        ELSE leds
               \* if (!overlay.expired()) _ovr_overlap()
               fb2 == IF ov # 0 /\ Len(fb1[c]) = Len(fb1[ov])
                        THEN [fb1 EXCEPT ![OverlapTarget(c, bb)] = Overlap(fb1[c], fb1[ov])]
                        ELSE fb1
           IN  /\ alive' = alive1
               /\ fb' = fb2
               /\ cled' = cled1
               /\ Commit(data1, leds1)
               /\ engine' = [engine EXCEPT !.backbuff = bb,
                                            !.bbmaker = IF switch THEN "show"
                                                        ELSE IF release THEN "none" ELSE @]
               \* FastLED.show(); the call is recorded with the back buffer
               \* and the overlay it found on entry
               /\ \E f \in FramesIn(fb2, data1, leds1, engine.cled) :
                     last' = Call("show", engine.backbuff, ov, f)
    /\ UNCHANGED <<stub, hung, view, probe>>

\* ------------------------------------------------- LedFB::at as a function
\* view sizes, with a store of exactly w*h elements, and the coordinates tried
ProbeDims == {<<1, 1>>, <<2, 3>>, <<4, 2>>, <<256, 256>>, <<256, 257>>}
ProbeCoords == {0 - 32768, 0 - 257, 0 - 256, 0 - 255, 0 - 2, 0 - 1,
                0, 1, 2, 3, 4, 255, 256, 257, 1023, 32767}

\* evaluate at(x, y) on the probe's view
ProbeAt ==
    /\ ~probe.done
    /\ probe' = [probe EXCEPT
                    !.ref = LedFB_at(probe.w, probe.h, probe.size, probe.map,
                                     probe.x, probe.y),
                    !.done = TRUE]
    /\ last' = Call("at", probe.x, probe.y, "void")
    /\ UNCHANGED <<alive, data, fb, cled, leds, stub, hung, view, engine>>

\* ------------------------------------------- the mappers as functions
\* a stripe of w x h, or a canvas of tiles, and the in-range coordinates asked
MapDims == 1..MaxDim
TileDims == 1..MaxTile
TileCounts == 1..MaxTileCnt
\* the w, h a LedTiles mapper is called with: the canvas size, and for a
\* single tile also any other size
TilesW(t) == {canvas_w(t)} \cup (IF t.tile_wcnt = 1 /\ t.tile_hcnt = 1 THEN TileDims ELSE {})
TilesH(t) == {canvas_h(t)} \cup (IF t.tile_wcnt = 1 /\ t.tile_hcnt = 1 THEN TileDims ELSE {})

\* evaluate LedStripe::transpose on the probe
StripeAt ==
    /\ ~probe.done /\ probe.kind = "stripe"
    /\ probe' = [probe EXCEPT
                    !.ref = transpose(probe.map, probe.w, probe.h, probe.x, probe.y),
                    !.done = TRUE]
    /\ last' = Call("transpose", probe.x, probe.y, "void")
    /\ UNCHANGED <<alive, data, fb, cled, leds, stub, hung, view, engine>>

\* evaluate LedTiles::transpose on the probe
TilesAt ==
    /\ ~probe.done /\ probe.kind = "tiles"
    /\ probe' = [probe EXCEPT
                    !.ref = LedTiles_transpose(probe.tiles, probe.w, probe.h,
                                               probe.x, probe.y),
                    !.done = TRUE]
    /\ last' = Call("tilesTranspose", probe.x, probe.y, "void")
    /\ UNCHANGED <<alive, data, fb, cled, leds, stub, hung, view, engine>>

\* --------------------------------------------------------- specifications
\* bound pixel stores and their sinks
Next ==
    \/ \E s \in Stores, n \in Sizes : Construct(s, n)
    \/ \E s \in CDBs, r \in CDBs : MoveConstruct(s, r)
    \/ \E a \in CDBs, b \in CDBs : MoveAssign(a, b)
    \/ \E s \in Stores : Destroy(s)
    \/ \E a \in CDBs, k \in Sinks \cup {NullSink} : Bind(a, k)
    \/ \E a \in CDBs, b \in CDBs : Rebind(a, b)
    \/ \E a \in CDBs, b \in CDBs : Swap(a, b)
    \/ \E a \in Stores, b \in Stores : SwapBase(a, b)
    \/ \E s \in Stores, n \in Sizes : Resize(s, n)
    \/ \E s \in Stores, c \in Colors : Fill(s, c)
    \/ \E s \in Stores : Clear(s)

Spec == Init /\ [][Next]_vars

\* pixel contents: element access through stores and views
NextPixels ==
    \/ \E s \in PixelStores, n \in Sizes : Construct(s, n)
    \/ \E s \in PixelStores : Destroy(s)
    \/ \E s \in PixelStores, n \in Sizes : Resize(s, n)
    \/ \E s \in PixelStores, c \in Colors : Fill(s, c)
    \/ \E s \in PixelStores : Clear(s)
    \/ \E s \in PixelStores, i \in 0..MaxLen, c \in Colors : WriteAt(s, i, c)
    \/ \E v \in PixelViews, w \in Sizes, h \in Sizes, s \in PixelStores : NewView(v, w, h, s)
    \/ \E v \in PixelViews : DropView(v)
    \/ \E v \in PixelViews, m \in PixelMappers : SetRemapFunction(v, m)
    \/ \E v \in PixelViews, x \in ViewCoords, y \in ViewCoords, c \in Colors : ViewWrite(v, x, y, c)

SpecPixels == Init /\ [][NextPixels]_vars

\* views over shared stores: construction, copy, resize through a view or
\* directly on the store
NextViews ==
    \/ \E s \in PixelStores, n \in Sizes : Construct(s, n)
    \/ \E s \in PixelStores : Destroy(s)
    \/ \E s \in PixelStores, n \in Sizes : Resize(s, n)
    \/ \E v \in Views, w \in Sizes, h \in Sizes, s \in PixelStores : NewView(v, w, h, s)
    \/ \E v \in Views, r \in Views : CopyView(v, r)
    \/ \E v \in Views, w \in Sizes, h \in Sizes : ViewResize(v, w, h)
    \/ \E v \in Views : DropView(v)

SpecViews == Init /\ [][NextViews]_vars

\* the display engine with its double buffer, and a client drawing into the
\* buffers it hands out (getBuffer, getBackBuffer)
EngineStores == {CanvasStore, BackStore}
NextEngine ==
    \/ \E n \in Sizes : EngineConstruct(n)
    \/ Show
    \/ \E active \in BOOLEAN : DoubleBuffer(active)
    \/ FlipBuffer
    \/ ToggleBuffer
    \/ CopyBack2Front
    \/ CopyFront2Back
    \/ \E s \in EngineStores, c \in Colors : Fill(s, c)
    \/ \E s \in EngineStores, i \in 0..(MaxLen - 1), c \in Colors : WriteAt(s, i, c)

SpecEngine == Init /\ [][NextEngine]_vars

\* the display engine with overlay mixing, and a client drawing into the
\* canvas and the overlay it was handed
OverlayStores == {CanvasStore, OverlayStore}
NextOverlay ==
    \/ \E n \in Sizes : EngineConstruct(n)
    \/ GetOverlay
    \/ ReleaseOverlay
    \/ \E v \in BOOLEAN : CanvasProtect(v)
    \/ ShowOverlay
    \/ \E s \in OverlayStores, c \in Colors : Fill(s, c)
    \/ \E s \in OverlayStores, i \in 0..(MaxLen - 1), c \in Colors : WriteAt(s, i, c)

SpecOverlay == Init /\ [][NextOverlay]_vars

\* the display engine with its double buffer, and a client that also resizes
\* the buffers it was handed
NextBuffers ==
    \/ \E n \in Sizes : EngineConstruct(n)
    \/ Show
    \/ EngineClear
    \/ \E active \in BOOLEAN : DoubleBuffer(active)
    \/ FlipBuffer
    \/ ToggleBuffer
    \/ CopyBack2Front
    \/ CopyFront2Back
    \/ \E s \in EngineStores, c \in Colors : Fill(s, c)
    \/ \E s \in EngineStores, n \in Sizes : Resize(s, n)

SpecBuffers == Init /\ [][NextBuffers]_vars

\* an engine made with or without a canvas, and a client that makes buffers,
\* binds them to controllers and attaches them to the engine
NextAttach ==
    \/ \E n \in Sizes : EngineConstruct(n)
    \/ \E s \in CDBs, n \in Sizes : Construct(s, n)
    \/ \E s \in CDBs, k \in Sinks : Bind(s, k)
    \/ \E s \in CDBs : AttachCanvas(s)
    \/ \E s \in CDBs, c \in Colors : Fill(s, c)
    \/ Show

SpecAttach == Init /\ [][NextAttach]_vars

\* ------------------------------------------------------- color conversion
\* static_cast<uint8_t>: the channel arguments of CRGB(r, g, b)
U8(v) == v % 256

\* static CRGB color16toCRGB(uint16_t c)
\*   c>>11 & 0x1f, c>>5 & 0xfc (bits 2..7 of c>>5), c & 0x1f
color16toCRGB(c) ==
    [r |-> U8((((c \div 2048) % 32) * 527 + 23) \div 64),
     g |-> U8((((((c \div 32) \div 4) % 64) * 4) * 259 + 33) \div 64),
     b |-> U8(((c % 32) * 527 + 23) \div 64)]

\* static uint16_t colorCRGBto16(CRGB c): the three fields do not overlap
colorCRGBto16(p) == U16((p.r \div 8) * 2048 + (p.g \div 4) * 32 + (p.b \div 8))

Colors16 == 0..(TwoPow16 - 1)

\* no store, no view, no engine: the state before any object is made
NoObjects ==
    /\ alive = [s \in Stores |-> FALSE]
    /\ data = [s \in Stores |-> NullPtr]
    /\ fb = [s \in Stores |-> <<>>]
    /\ cled = [s \in Stores |-> NullSink]
    /\ leds = [k \in Sinks |-> [ptr |-> NullPtr, len |-> 0]]
    /\ stub = Black
    /\ hung = FALSE
    /\ view = [v \in Views |-> NoView]
    /\ engine = NoEngine
    /\ last = Call("none", 0, 0, "void")

\* one packed color per behaviour
InitColor ==
    /\ NoObjects
    /\ \E c \in Colors16 :
          probe = [kind |-> "color", c |-> c, rgb |-> color16toCRGB(0), back |-> 0,
                   done |-> FALSE]

\* expand the probe's packed color and quantize it back
ConvertColor ==
    /\ ~probe.done /\ probe.kind = "color"
    /\ probe' = [probe EXCEPT !.rgb = color16toCRGB(probe.c),
                              !.back = colorCRGBto16(color16toCRGB(probe.c)),
                              !.done = TRUE]
    /\ last' = Call("color16toCRGB", probe.c, 0, "void")
    /\ UNCHANGED <<alive, data, fb, cled, leds, stub, hung, view, engine>>

NextColor == ConvertColor

SpecColor == InitColor /\ [][NextColor]_vars

\* a program that drives an RMT strip engine and a HUB75 panel engine, each
\* through its buffer operations, clear() and show()
InitEngines ==
    /\ NoObjects
    /\ probe = NoPanel

NextEngines ==
    \/ \E n \in Sizes : EngineConstruct(n)
    \/ Show
    \/ EngineClear
    \/ \E active \in BOOLEAN : DoubleBuffer(active)
    \/ FlipBuffer
    \/ ToggleBuffer
    \/ CopyBack2Front
    \/ CopyFront2Back
    \/ \E s \in EngineStores, c \in Colors : Fill(s, c)
    \/ \E w \in PanelDims, h \in PanelDims : Hub75Construct(w, h)
    \/ \E front \in BOOLEAN, c \in Colors : Hub75Fill(front, c)
    \/ Hub75Clear
    \/ Hub75EngineShow
    \/ \E active \in BOOLEAN : Hub75DoubleBuffer(active)
    \/ Hub75FlipBuffer
    \/ Hub75ToggleBuffer
    \/ Hub75CopyBack2Front
    \/ Hub75CopyFront2Back

SpecEngines == InitEngines /\ [][NextEngines]_vars

\* the display engine with overlay mixing and the client-driven double
\* buffer together, and a client drawing into every buffer it was handed
CompositorStores == {CanvasStore, BackStore, OverlayStore}
NextCompositor ==
    \/ \E n \in Sizes : EngineConstruct(n)
    \/ GetOverlay
    \/ ReleaseOverlay
    \/ \E v \in BOOLEAN : CanvasProtect(v)
    \/ ShowOverlay
    \/ \E active \in BOOLEAN : DoubleBuffer(active)
    \/ FlipBuffer
    \/ ToggleBuffer
    \/ EngineClear
    \/ \E s \in CompositorStores, c \in Colors : Fill(s, c)
    \/ \E s \in CompositorStores, i \in 0..(MaxLen - 1), c \in Colors : WriteAt(s, i, c)

SpecCompositor == Init /\ [][NextCompositor]_vars

\* LedFB::at over the whole coordinate range, one evaluation per behaviour
InitAt ==
    /\ alive = [s \in Stores |-> FALSE]
    /\ data = [s \in Stores |-> NullPtr]
    /\ fb = [s \in Stores |-> <<>>]
    /\ cled = [s \in Stores |-> NullSink]
    /\ leds = [k \in Sinks |-> [ptr |-> NullPtr, len |-> 0]]
    /\ stub = Black
    /\ hung = FALSE
    /\ view = [v \in Views |-> NoView]
    /\ engine = NoEngine
    /\ \E d \in ProbeDims, m \in Mappers, x \in ProbeCoords, y \in ProbeCoords :
          probe = [w |-> d[1], h |-> d[2], size |-> d[1] * d[2], map |-> m,
                   x |-> x, y |-> y, ref |-> StubRef, done |-> FALSE]
    /\ last = Call("none", 0, 0, "void")

NextAt == ProbeAt

SpecAt == InitAt /\ [][NextAt]_vars

\* the mappers over every configuration and every in-range coordinate, one
\* evaluation per behaviour
InitMap ==
    /\ alive = [s \in Stores |-> FALSE]
    /\ data = [s \in Stores |-> NullPtr]
    /\ fb = [s \in Stores |-> <<>>]
    /\ cled = [s \in Stores |-> NullSink]
    /\ leds = [k \in Sinks |-> [ptr |-> NullPtr, len |-> 0]]
    /\ stub = Black
    /\ hung = FALSE
    /\ view = [v \in Views |-> NoView]
    /\ engine = NoEngine
    /\ \/ \E m \in Stripes, w \in MapDims, h \in MapDims :
             \E x \in 0..(w - 1), y \in 0..(h - 1) :
                 probe = [kind |-> "stripe", map |-> m, tiles |-> Tiles(m, m, 1, 1, 1, 1),
                          w |-> w, h |-> h, x |-> x, y |-> y,
                          ref |-> StubRef, done |-> FALSE]
       \/ \E f \in Stripes, l \in Stripes, tw \in TileDims, th \in TileDims,
             wc \in TileCounts, hc \in TileCounts :
             \E w \in TilesW(Tiles(f, l, tw, th, wc, hc)),
                h \in TilesH(Tiles(f, l, tw, th, wc, hc)) :
                 \E x \in 0..(w - 1), y \in 0..(h - 1) :
                     probe = [kind |-> "tiles", map |-> f,
                              tiles |-> Tiles(f, l, tw, th, wc, hc),
                              w |-> w, h |-> h, x |-> x, y |-> y,
                              ref |-> StubRef, done |-> FALSE]
    /\ last = Call("none", 0, 0, "void")

NextMap == StripeAt \/ TilesAt

SpecMap == InitMap /\ [][NextMap]_vars

\* ------------------------------------------------------------------ claims
Synced(s, k) == leds[k] = [ptr |-> data[s], len |-> Len(fb[s])]

\* the step is a call of op on a with argument b (every action records it)
Called(op, a, b) == last'.op = op /\ last'.a = a /\ last'.b = b

\* C1: bind(sink) returns false when sink is null or when the store is bound
\* to a different sink, and then changes nothing: bindings, storage, contents
\* and what every sink is attached to (the rejected sink included) stay as
\* they were.
BindRejectChangesNothing ==
    [][\A a \in CDBs, k \in Sinks \cup {NullSink} :
          (Called("bind", a, k) /\ Bind(a, k) /\ (k = NullSink \/ (cled[a] # NullSink /\ cled[a] # k)))
              => /\ last'.ret = "false"
                 /\ UNCHANGED <<alive, data, fb, cled, leds, stub>>]_vars

\* a bind of a second sink was refused by a store whose own sink is attached
\* to its storage; the refused sink is still attached to nothing
BindRejectedSeen ==
    /\ last.op = "bind" /\ last.ret = "false" /\ last.b # NullSink
    /\ cled[last.a] # NullSink /\ cled[last.a] # last.b
    /\ Len(fb[last.a]) > 0 /\ Synced(last.a, cled[last.a])
    /\ leds[last.b].ptr = NullPtr

OneStorePerSink ==
    \A a \in CDBs, b \in CDBs :
        (alive[a] /\ alive[b] /\ cled[a] # NullSink /\ cled[a] = cled[b]) => a = b

\* C4: for every store that reports isBound(), the bound sink's attached
\* pointer and length are the store's backing storage and size.
BoundSinkInSync ==
    \A s \in CDBs : (alive[s] /\ cled[s] # NullSink) => Synced(s, cled[s])

\* C5: after a.swap(b) the two stores have exchanged their contents, the
\* bindings are as before, and every bound sink of either store is attached to
\* that store's new storage pointer and length.
SwapResyncsBoth ==
    [][\A a \in CDBs, b \in CDBs :
          (Called("swap", a, b) /\ Swap(a, b))
              => /\ fb'[a] = fb[b] /\ fb'[b] = fb[a]
                 /\ cled' = cled
                 /\ \A s \in {a, b} :
                       cled[s] # NullSink =>
                           leds'[cled[s]] = [ptr |-> data'[s], len |-> Len(fb'[s])]]_vars

\* C6: a.rebind(b) exchanges the two bindings and nothing else: contents and
\* storage are untouched, and afterwards each sink is attached to the storage
\* of the store that now holds it.
RebindExchangesBindings ==
    [][\A a \in CDBs, b \in CDBs :
          (Called("rebind", a, b) /\ Rebind(a, b))
              => /\ fb' = fb /\ data' = data /\ alive' = alive
                 /\ cled'[a] = cled[b] /\ cled'[b] = cled[a]
                 /\ \A s \in Stores \ {a, b} : cled'[s] = cled[s]
                 /\ \A s \in {a, b} :
                       cled'[s] # NullSink =>
                           leds'[cled'[s]] = [ptr |-> data'[s], len |-> Len(fb'[s])]]_vars

\* C7: when a store is destroyed, every sink attached to its storage has been
\* re-attached to the placeholder buffer of length 1 before the storage is
\* freed, so no sink stays attached to the storage of a destroyed store.
DestroyParksSinks ==
    [][\A s \in Stores :
          (Called("destroy", s, 0) /\ Destroy(s) /\ data[s] # NullPtr)
              => \A k \in Sinks :
                    leds[k].ptr = data[s] => leds'[k] = [ptr |-> BlackholePtr, len |-> 1]]_vars

\* C8: CLedCDB::resize(n) leaves the store with exactly n elements, all black,
\* returns true exactly when the resulting size is n, keeps every binding, and
\* leaves the sink of a bound store attached to the new storage pointer with
\* length n.
ResizeClearsAndResyncs ==
    [][\A s \in CDBs, n \in Sizes :
          (Called("resize", s, n) /\ Resize(s, n))
              => /\ fb'[s] = [i \in 1..n |-> Black]
                 /\ (last'.ret = "true") <=> (Len(fb'[s]) = n)
                 /\ cled' = cled
                 /\ cled[s] # NullSink =>
                       leds'[cled[s]] = [ptr |-> data'[s], len |-> n]]_vars

\* a bound store has been resized to the largest size and its sink follows it
ResizeOfBoundSeen ==
    /\ last.op = "resize" /\ last.ret = "true" /\ last.a \in CDBs /\ last.b = MaxLen
    /\ cled[last.a] # NullSink
    /\ Len(fb[last.a]) = MaxLen /\ Synced(last.a, cled[last.a])

\* C9: store access at(i) with i >= size, and view access at(x, y) with
\* x >= width whatever the installed mapper, resolve to the sentinel element: a
\* write through them lands in stub_pixel and changes no element and no size
\* of any store.
SentinelWriteHarmless ==
    [][/\ last'.op = "writeAt" =>
             \A c \in Colors :
                 (last'.b >= Len(fb[last'.a]) /\ WriteAt(last'.a, last'.b, c))
                     => (last'.ret = "stub" /\ stub' = c /\ fb' = fb)
       /\ last'.op = "viewWrite" =>
             \A y \in ViewCoords, c \in Colors :
                 (last'.b >= view[last'.a].w /\ ViewWrite(last'.a, last'.b, y, c))
                     => (last'.ret = "stub" /\ stub' = c /\ fb' = fb)]_vars

\* a view with a stripe mapper was written at x >= width, at an x that is an
\* index of its store: the color is in stub_pixel and the store is still black
SentinelWriteSeen ==
    /\ last.op = "viewWrite" /\ last.ret = "stub"
    /\ view[last.a].buf # 0 /\ view[last.a].map.stripe
    /\ last.b >= view[last.a].w /\ last.b < Len(fb[view[last.a].buf])
    /\ stub # Black
    /\ \A i \in 1..Len(fb[view[last.a].buf]) : fb[view[last.a].buf][i] = Black

\* C10: for a view of size w x h, at(x, y) with a coordinate outside
\* 0 <= x < w, 0 <= y < h returns the sentinel element, for the row-major
\* mapper and for every LedStripe configuration.
OutOfViewIsSentinel ==
    (probe.done /\ ~(0 <= probe.x /\ probe.x < probe.w /\ 0 <= probe.y /\ probe.y < probe.h))
        => probe.ref = StubRef

\* C11: for every existing view, width * height is at most the element count
\* of its backing store, whatever views were constructed or copied over a
\* shared store and whatever resize was called through a view or on the store.
ViewFitsStore ==
    \A v \in Views :
        view[v].buf # 0 => view[v].w * view[v].h <= Len(fb[view[v].buf])

\* the in-range coordinates of a w x h matrix
Points(w, h) == (0..(w - 1)) \X (0..(h - 1))

\* C12: for every one of the 16 stripe flag combinations and every width and
\* height of at least 1, LedStripe::transpose over 0 <= x < width,
\* 0 <= y < height is a bijection onto 0..width*height-1: the offsets are
\* exactly that range and the offset of (x, y) is produced by no other point.
StripeIsBijection ==
    (probe.done /\ probe.kind = "stripe")
        => /\ probe.ref \in 0..(probe.w * probe.h - 1)
           /\ {transpose(probe.map, probe.w, probe.h, p[1], p[2]) :
                  p \in Points(probe.w, probe.h)} = 0..(probe.w * probe.h - 1)
           /\ \A p \in Points(probe.w, probe.h) :
                 transpose(probe.map, probe.w, probe.h, p[1], p[2]) = probe.ref
                     => p = <<probe.x, probe.y>>

\* a vertical, snaked stripe with both mirrors, 3 x 4, asked for the point
\* that maps to the last offset
StripeLastOffsetSeen ==
    /\ probe.done /\ probe.kind = "stripe"
    /\ probe.map = Stripe(TRUE, TRUE, TRUE, TRUE)
    /\ probe.w = 3 /\ probe.h = 4
    /\ probe.ref = probe.w * probe.h - 1

\* C13: with tile counts (1, 1), LedTiles::transpose(w, h, x, y) equals
\* LedStripe::transpose(w, h, x, y) with the tile's own flags for every
\* in-range (x, y), whatever the chaining flags of tileLayout; and the tiled
\* formula itself, with counts (1, 1), w = tile_w and h = tile_h, gives the
\* same offset.
SingleTileIsStripe ==
    (probe.done /\ probe.kind = "tiles"
       /\ probe.tiles.tile_wcnt = 1 /\ probe.tiles.tile_hcnt = 1)
        => /\ probe.ref = transpose(probe.tiles.flags, probe.w, probe.h, probe.x, probe.y)
           /\ (probe.w = probe.tiles.tile_w /\ probe.h = probe.tiles.tile_h)
                 => tiled_transpose(probe.tiles, probe.w, probe.h, probe.x, probe.y)
                        = probe.ref

\* a single 1 x 2 tile with a mirrored, snaked vertical chaining, called for a
\* 2 x 2 matrix at its last column
SingleTileSeen ==
    /\ probe.done /\ probe.kind = "tiles"
    /\ probe.tiles.tile_wcnt = 1 /\ probe.tiles.tile_hcnt = 1
    /\ probe.tiles.layout = Stripe(TRUE, TRUE, TRUE, TRUE)
    /\ probe.tiles.flags.snake
    /\ probe.tiles.tile_w = 1 /\ probe.tiles.tile_h = 2
    /\ probe.w = 2 /\ probe.h = 2 /\ probe.x = 1 /\ probe.y = 1

\* C14: with snake set and vertical, vmirror, hmirror cleared, for all w, h
\* and in-range (x, y), transpose(w, h, x, y) is y*w + x on even rows and
\* y*w + (w-1-x) on odd rows; transpose(4, 2, 3, 1) = 4 and
\* transpose(4, 2, 0, 1) = 7.
SnakeRows ==
    (probe.done /\ probe.kind = "stripe"
       /\ probe.map = Stripe(TRUE, FALSE, FALSE, FALSE))
        => /\ probe.ref = IF probe.y % 2 = 0
                            THEN probe.y * probe.w + probe.x
                            ELSE probe.y * probe.w + (probe.w - 1 - probe.x)
           /\ (probe.w = 4 /\ probe.h = 2 /\ probe.x = 3 /\ probe.y = 1) => probe.ref = 4
           /\ (probe.w = 4 /\ probe.h = 2 /\ probe.x = 0 /\ probe.y = 1) => probe.ref = 7

\* the snaked 4 x 2 stripe asked for (0, 1)
SnakeRowSeen ==
    /\ probe.done /\ probe.kind = "stripe"
    /\ probe.map = Stripe(TRUE, FALSE, FALSE, FALSE)
    /\ probe.w = 4 /\ probe.h = 2 /\ probe.x = 0 /\ probe.y = 1 /\ probe.ref = 7

\* C15: the stripe flags compose independently: for every setting of the
\* other three flags and every in-range (x, y), transpose with vmirror set
\* equals transpose with vmirror cleared at (x, h-1-y), and transpose with
\* hmirror set equals transpose with hmirror cleared at (w-1-x, y); snake
\* neither cancels nor alters a mirror.
MirrorsCompose ==
    (probe.done /\ probe.kind = "stripe")
        => /\ probe.map.vmirror
                 => probe.ref = transpose([probe.map EXCEPT !.vmirror = FALSE],
                                          probe.w, probe.h,
                                          probe.x, probe.h - 1 - probe.y)
           /\ probe.map.hmirror
                 => probe.ref = transpose([probe.map EXCEPT !.hmirror = FALSE],
                                          probe.w, probe.h,
                                          probe.w - 1 - probe.x, probe.y)

\* a snaked stripe with both mirrors and an even number of rows and columns
MirroredSnakeSeen ==
    /\ probe.done /\ probe.kind = "stripe"
    /\ probe.map.snake /\ probe.map.vmirror /\ probe.map.hmirror
    /\ probe.w = 4 /\ probe.h = 2 /\ probe.x = 1 /\ probe.y = 0

\* C16: for tile counts not both 1, LedTiles::transpose(x, y) is
\* tile_w*tile_h * tileLayout.transpose(wcnt, hcnt, x div tile_w, y div tile_h)
\* + LedStripe::transpose(tile_w, tile_h, x mod tile_w, y mod tile_h), and over
\* the canvas 0 <= x < tile_w*wcnt, 0 <= y < tile_h*hcnt it is a bijection onto
\* 0..canvas_w*canvas_h-1 for every combination of per-tile and chaining flags.
TilesIsBijection ==
    (probe.done /\ probe.kind = "tiles"
       /\ ~(probe.tiles.tile_wcnt = 1 /\ probe.tiles.tile_hcnt = 1)
       /\ probe.w = canvas_w(probe.tiles) /\ probe.h = canvas_h(probe.tiles))
        => LET t == probe.tiles
               size == canvas_w(t) * canvas_h(t)
           IN  /\ probe.ref =
                     t.tile_w * t.tile_h
                         * transpose(t.layout, t.tile_wcnt, t.tile_hcnt,
                                     probe.x \div t.tile_w, probe.y \div t.tile_h)
                       + transpose(t.flags, t.tile_w, t.tile_h,
                                   probe.x % t.tile_w, probe.y % t.tile_h)
               /\ {LedTiles_transpose(t, probe.w, probe.h, p[1], p[2]) :
                      p \in Points(probe.w, probe.h)} = 0..(size - 1)
               /\ \A p \in Points(probe.w, probe.h) :
                     LedTiles_transpose(t, probe.w, probe.h, p[1], p[2]) = probe.ref
                         => p = <<probe.x, probe.y>>

\* a canvas of 2 x 2 tiles of 1 x 2 pixels, snaked tiles in a snaked vertical
\* chain, asked for the point that maps to the last offset
TilesLastOffsetSeen ==
    /\ probe.done /\ probe.kind = "tiles"
    /\ probe.tiles.tile_wcnt = 2 /\ probe.tiles.tile_hcnt = 2
    /\ probe.tiles.tile_w = 1 /\ probe.tiles.tile_h = 2
    /\ probe.tiles.flags.snake /\ probe.tiles.layout.snake /\ probe.tiles.layout.vertical
    /\ probe.ref = canvas_w(probe.tiles) * canvas_h(probe.tiles) - 1

Attached(s) ==
    /\ alive[s] /\ cled[s] = engine.cled
    /\ leds[engine.cled] = [ptr |-> data[s], len |-> Len(fb[s])]

AllTransparent ==
    /\ engine.overlay # 0
    /\ Len(fb[engine.overlay]) = Len(fb[engine.canvas])
    /\ \A i \in 1..Len(fb[engine.overlay]) : fb[engine.overlay][i] = Transparent

AllColor(c) ==
    /\ engine.overlay # 0
    /\ Len(fb[engine.overlay]) = Len(fb[engine.canvas])
    /\ \A i \in 1..Len(fb[engine.overlay]) : fb[engine.overlay][i] = c

OverlayLivesWithItsHolders ==
    [][/\ (last'.op = "getOverlay" /\ GetOverlay /\ engine.overlay # 0)
             => UNCHANGED <<alive, data, fb, cled, leds>>
                /\ engine'.overlay = engine.overlay
       /\ (last'.op = "getOverlay" /\ GetOverlay /\ engine.overlay = 0)
             => /\ engine'.overlay # 0 /\ alive'[engine'.overlay]
                /\ fb'[engine'.overlay] = Zeros(Len(fb[engine.canvas]))
                /\ data'[engine'.overlay] \notin
                      {data'[s] : s \in Stores \ {engine'.overlay}} \ {NullPtr}
                /\ fb'[engine.canvas] = fb[engine.canvas]
       /\ (last'.op = "releaseOverlay" /\ ReleaseOverlay)
             => IF engine.holders = 1
                  THEN engine'.overlay = 0 /\ ~alive'[OverlayStore]
                  ELSE engine'.overlay = engine.overlay
                       /\ UNCHANGED <<alive, data, fb, cled, leds>>
       /\ (engine'.overlay # 0) = (engine'.holders > 0)
       /\ alive'[OverlayStore] = (engine'.overlay # 0)]_vars

\* a second getOverlay() has returned the overlay a first caller still holds
\* and has drawn into
SharedOverlaySeen ==
    /\ last.op = "getOverlay" /\ last.a # 0 /\ last.b = 1
    /\ engine.holders = MaxHolders
    /\ Len(fb[engine.overlay]) = MaxLen
    /\ \E i \in 1..MaxLen : fb[engine.overlay][i] # Black

ReleaseLeavesSinkOnCanvas ==
    [][(last'.op = "doubleBuffer" /\ last'.a = FALSE /\ DoubleBuffer(FALSE))
          => /\ engine'.backbuff = 0 /\ ~alive'[BackStore]
             /\ engine'.active
             /\ Attached(engine.canvas)'
             /\ leds'[engine.cled].ptr # BlackholePtr
             /\ fb'[engine.canvas] = fb[engine.canvas]]_vars

\* doubleBuffer(false) has discarded a back buffer that held the binding
BoundBackBufferReleasedSeen ==
    /\ last.op = "doubleBuffer" /\ last.a = FALSE /\ last.b = engine.cled
    /\ engine.cled # NullSink /\ engine.backbuff = 0
    /\ Len(fb[engine.canvas]) = MaxLen
    /\ \E i \in 1..MaxLen : fb[engine.canvas][i] # Black

\* the buffer of the engine that holds the sink binding
BoundBuffer == IF cled[engine.canvas] = engine.cled THEN engine.canvas ELSE engine.backbuff

\* C25: flipBuffer() with a back buffer present exchanges the complete
\* contents of canvas and back buffer, leaves the active-buffer flag and the
\* buffer that holds the sink binding as they were, with the sink attached to
\* that buffer's storage, and applied twice restores the contents; with no
\* back buffer it changes nothing.
FlipExchangesContents ==
    [][(last'.op = "flipBuffer" /\ FlipBuffer)
          => IF engine.backbuff # 0
               THEN /\ fb'[engine.canvas] = fb[engine.backbuff]
                    /\ fb'[engine.backbuff] = fb[engine.canvas]
                    /\ engine' = engine /\ cled' = cled /\ alive' = alive
                    /\ Attached(BoundBuffer)'
                    /\ BoundBuffer' = BoundBuffer
               ELSE UNCHANGED <<alive, data, fb, cled, leds, engine>>]_vars

\* flipBuffer() has exchanged two different contents while the back buffer
\* held the binding
FlipSeen ==
    /\ last.op = "flipBuffer" /\ engine.backbuff # 0 /\ ~engine.active
    /\ Len(fb[engine.canvas]) = MaxLen
    /\ fb[engine.canvas] # fb[engine.backbuff]
    /\ \A i \in 1..MaxLen : fb[engine.canvas][i] # Black

\* C26: toggleBuffer() with a back buffer present inverts the active-buffer
\* flag and returns the new value, while changing neither which buffer the
\* sink is bound and attached to nor the contents of any buffer; with no back
\* buffer it changes nothing and returns the current flag.
ToggleKeepsBinding ==
    [][(last'.op = "toggleBuffer" /\ ToggleBuffer)
          => IF engine.backbuff # 0
               THEN /\ engine'.active = ~engine.active
                    /\ last'.ret = engine'.active
                    /\ cled' = cled
                    /\ Attached(BoundBuffer)'
                    /\ fb' = fb
               ELSE /\ UNCHANGED <<alive, data, fb, cled, leds, engine>>
                    /\ last'.ret = engine.active]_vars

\* C26 as amended: ESP32RMTDisplayEngine::toggleBuffer() with a back buffer
\* present inverts the active-buffer flag, returns the new value and moves
\* the sink binding to the other buffer, so that the sink is bound and
\* attached to the buffer the new flag selects; it changes the contents of no
\* buffer; with no back buffer it changes nothing and returns the current
\* flag.
ToggleMovesBinding ==
    [][(last'.op = "toggleBuffer" /\ ToggleBuffer)
          => IF engine.backbuff # 0
               THEN /\ engine'.active = ~engine.active
                    /\ last'.ret = engine'.active
                    /\ BoundBuffer' # BoundBuffer
                    /\ Attached(ActiveBuffer)'
                    /\ cled'[BoundBuffer] = NullSink
                    /\ fb' = fb /\ alive' = alive
                    /\ engine'.backbuff = engine.backbuff
               ELSE /\ UNCHANGED <<alive, data, fb, cled, leds, engine>>
                    /\ last'.ret = engine.active]_vars

\* toggleBuffer() has made the back buffer the active one and returned false
ToggleToBackSeen ==
    /\ last.op = "toggleBuffer" /\ last.ret = FALSE
    /\ engine.backbuff # 0 /\ ~engine.active
    /\ Attached(engine.backbuff)
    /\ Len(fb[engine.canvas]) = MaxLen
    /\ fb[engine.canvas] # fb[engine.backbuff]

\* C27: copyBack2Front() makes the canvas content equal to the back buffer
\* content and copyFront2Back() the reverse; the source buffer is unchanged,
\* the buffer that holds the sink binding and the active flag are unchanged,
\* the bound sink is still attached to the current storage of the buffer
\* that holds the binding, and with no back buffer nothing changes.
CopyKeepsSinkAttached ==
    [][/\ (last'.op = "copyBack2Front" /\ CopyBack2Front)
             => IF engine.backbuff # 0
                  THEN /\ fb'[engine.canvas] = fb[engine.backbuff]
                       /\ fb'[engine.backbuff] = fb[engine.backbuff]
                       /\ cled' = cled /\ engine' = engine
                       /\ Attached(BoundBuffer)'
                  ELSE UNCHANGED <<alive, data, fb, cled, leds, engine>>
       /\ (last'.op = "copyFront2Back" /\ CopyFront2Back)
             => IF engine.backbuff # 0
                  THEN /\ fb'[engine.backbuff] = fb[engine.canvas]
                       /\ fb'[engine.canvas] = fb[engine.canvas]
                       /\ cled' = cled /\ engine' = engine
                       /\ Attached(BoundBuffer)'
                  ELSE UNCHANGED <<alive, data, fb, cled, leds, engine>>]_vars

\* C28: whenever a back buffer exists, its element count equals the canvas
\* element count, in every state reached by doubleBuffer, toggleBuffer,
\* flipBuffer, the copy operations, clear, and resize calls on the buffers
\* handed out by getBuffer() and getBackBuffer().
BackBufferHasCanvasSize ==
    engine.backbuff # 0 => Len(fb[engine.backbuff]) = Len(fb[engine.canvas])

\* the buffers of the engine that exist: canvas, back buffer, live overlay
EngineBuffers == {engine.canvas, engine.backbuff, engine.overlay} \ {0}

\* C29: after clear() every pixel of the canvas, of the back buffer if one
\* exists, and of the overlay if one is alive is the background (zero) color,
\* no buffer is created or released and the overlay stays alive, and a push
\* to the sink was issued as part of the call, so the sink does not keep
\* showing pre-clear data.
ClearBlanksEveryBuffer ==
    [][(last'.op = "engineClear" /\ EngineClear)
          => /\ \A s \in EngineBuffers : fb'[s] = Zeros(Len(fb[s]))
             /\ alive' = alive /\ engine' = engine
             /\ \A i \in 1..Len(last'.ret) : last'.ret[i] = Black]_vars

\* C30: attachCanvas(fb) on an engine that already has a sink controller
\* attached returns false and changes nothing: the engine's canvas reference,
\* the sink and the existing canvas binding are all as before, and fb is not
\* bound.
SecondAttachRefused ==
    [][(last'.op = "attachCanvas" /\ AttachCanvas(last'.a) /\ engine.cled # NullSink)
          => /\ last'.ret = FALSE
             /\ UNCHANGED <<alive, data, fb, cled, leds, engine>>]_vars

\* attachCanvas of a second, unbound buffer was refused by an engine whose
\* canvas holds the controller
SecondAttachSeen ==
    /\ last.op = "attachCanvas" /\ last.ret = FALSE
    /\ last.a # engine.canvas /\ cled[last.a] = NullSink
    /\ Attached(engine.canvas)
    /\ Len(fb[last.a]) = MaxLen

\* the calls that may change the content of a buffer: draw, flip, copy, clear
ContentCalls ==
    {"fill", "writeAt", "flipBuffer", "copyBack2Front", "copyFront2Back", "engineClear"}

ColorRoundTrip ==
    (probe.kind = "color" /\ probe.done) => probe.back = probe.c

\* C33: every swap returns and leaves the two stores' contents exchanged,
\* also the virtual swap(PixelDataBuffer&) called on a bound store with
\* an argument that is a bound store itself: no call recurses without end.
SwapReturnsExchanged ==
    [][(last'.op \in {"swap", "swapBase"})
         => /\ ~hung'
            /\ fb'[last'.a] = fb[last'.b]
            /\ fb'[last'.b] = fb[last'.a]]_vars

\* C34: after a = std::move(b) on two bound stores, a holds the contents b
\* had and b is unbound; a is bound to the sink b had if b had one and keeps
\* its own binding otherwise; the sink a ends with is attached to a's (moved)
\* storage; and when a and b were bound to two different sinks, the sink a
\* had is attached to the 1-element placeholder.
MoveAssignTakesOver ==
    [][(last'.op = "moveAssign")
         => LET a == last'.a
                b == last'.b
            IN  /\ fb'[a] = fb[b]
                /\ cled'[b] = NullSink
                /\ cled'[a] = (IF cled[b] # NullSink THEN cled[b] ELSE cled[a])
                /\ cled'[a] # NullSink
                      => leds'[cled'[a]] = [ptr |-> data'[a], len |-> Len(fb'[a])]
                /\ (cled[a] # NullSink /\ cled[b] # NullSink /\ cled[a] # cled[b])
                      => leds'[cled[a]] = [ptr |-> BlackholePtr, len |-> 1]]_vars

\* a move-assigned store bound to one sink and holding pixels, while another
\* sink is left on the placeholder
MoveAssignAcrossSinksSeen ==
    /\ last.op = "moveAssign"
    /\ cled[last.a] # NullSink /\ Len(fb[last.a]) > 0
    /\ leds[cled[last.a]] = [ptr |-> data[last.a], len |-> Len(fb[last.a])]
    /\ \E k \in Sinks \ {cled[last.a]} : leds[k] = [ptr |-> BlackholePtr, len |-> 1]

\* |a - b|
AbsDiff(a, b) == IF a >= b THEN a - b ELSE b - a

\* C35: with snake enabled, for every orientation and mirror setting, every
\* width and height and every offset k in 0..w*h-2, the pixel mapped to
\* offset k + 1 is a neighbour of the pixel mapped to k: the two differ by
\* exactly 1 in one coordinate and by 0 in the other.
SnakeNeighboursAdjacent ==
    (probe.done /\ probe.kind = "stripe" /\ probe.map.snake
       /\ probe.ref \in 0..(probe.w * probe.h - 2))
        => /\ \E q \in Points(probe.w, probe.h) :
                 transpose(probe.map, probe.w, probe.h, q[1], q[2]) = probe.ref + 1
           /\ \A q \in Points(probe.w, probe.h) :
                 transpose(probe.map, probe.w, probe.h, q[1], q[2]) = probe.ref + 1
                     => AbsDiff(q[1], probe.x) + AbsDiff(q[2], probe.y) = 1

\* the last pixel of the first row of a horizontal snake 3 x 2: the next
\* offset lies in the second row
SnakeRowEndSeen ==
    /\ probe.done /\ probe.kind = "stripe"
    /\ probe.map = Stripe(TRUE, FALSE, FALSE, FALSE)
    /\ probe.w = 3 /\ probe.h = 2
    /\ probe.x = 2 /\ probe.y = 0 /\ probe.ref = 2

\* C36: in both engines the active-buffer flag selects the back buffer only
\* while a back buffer exists: in every state reached by doubleBuffer,
\* toggleBuffer, flipBuffer, the copy operations, clear and show on an engine
\* that has a canvas, getActiveBuffer() is a live buffer and engine_show never
\* reads through a missing back buffer.
ActiveFlagHasBuffer ==
    /\ engine.canvas # 0
          => /\ ActiveBuffer # 0 /\ alive[ActiveBuffer]
             /\ ~engine.active => engine.backbuff # 0
    /\ (probe.kind = "hub75" /\ probe.made)
          => /\ ~probe.active => probe.hasbb
             /\ ~hung

\* both engines render from their back buffers
BothEnginesOnBackBufferSeen ==
    /\ engine.canvas # 0 /\ ~engine.active /\ engine.backbuff # 0
    /\ probe.kind = "hub75" /\ probe.made /\ ~probe.active /\ probe.hasbb
    /\ last.op = "hub75.show"

\* C39: the HUB75 engine made from a panel configuration owns a canvas of
\* exactly mx_width * mx_height pixels, so that engine_show, which sends
\* element i to (i mod mx_width, i div mx_width), writes every coordinate of
\* the panel exactly once and none outside it, for non-square panels too.
Hub75CanvasCoversPanel ==
    (probe.kind = "hub75" /\ probe.made)
        => /\ Len(probe.canvas) = probe.mx_width * probe.mx_height
           /\ (last.op = "hub75.show" /\ probe.active)
                 => /\ Len(last.ret) = probe.mx_width * probe.mx_height
                    /\ {last.ret[i] : i \in 1..Len(last.ret)}
                           = Points(probe.mx_width, probe.mx_height)

\* the buffer the HUB75 engine's getActiveBuffer() returns
Hub75ActiveBuffer == IF probe.active THEN probe.canvas ELSE probe.backbuff

AttachedCanvasIsBound ==
    [][(last'.op = "attachCanvas" /\ last'.ret = TRUE)
          => /\ engine'.canvas = last'.a
             /\ cled'[last'.a] = engine'.cled]_vars
====
